---- MODULE Spec2Model ----
(***************************************************************************)
(* A model of package blob (github.com/gonutz/blob): the builder Blob with *)
(* Append and the lookups, Blob.Write, Read, and the lazily opened         *)
(* container with its bounded stream views.                                *)
(*                                                                         *)
(* Byte strings ([]byte, string, the contents of buffers and readers) are  *)
(* kept run-length encoded: a sequence of runs <<b, n>>, n >= 1, no two    *)
(* neighbouring runs with the same byte.  This is only a representation:   *)
(* BLen, Cat, Take, Drop and Sub are length, concatenation, prefix, suffix *)
(* and slice of the byte string itself, and an identifier of 65536 bytes   *)
(* stays one run.                                                          *)
(*                                                                         *)
(* uint64 values are sequences of 8 bytes, least significant first, with   *)
(* carry arithmetic, so that they wrap at 2^64 as in Go.                   *)
(***************************************************************************)
EXTENDS Integers, Sequences, FiniteSets, TLC

VARIABLES
    header,   \* b.header of the blob under construction: [id, start, end]
    data,     \* b.data of the blob under construction
    appended, \* the (id, data) pairs passed to Append, in order
    wbuf,     \* the bytes the destination of Write has received
    wcalls,   \* the destination's Write calls, by phase, in order
    wfail,    \* the phase in which the destination of Write fails, or "none"
    werr,     \* "unwritten", or what Write returned ("nil" or the error)
    rd,       \* the last Read: its reader and what it returned
    sc,       \* the container returned by Open
    srcPos,   \* the position of the source shared by all views
    views,    \* the views handed out by the opened container
    last,     \* the last operation on the opened container and its result
    hdr,      \* header bytes handed to the header decoding
    dec       \* what the header decoding returned for hdr

vars == <<header, data, appended, wbuf, wcalls, wfail, werr, rd, sc, srcPos, views, last, hdr, dec>>

(***************************************************************************)
(* Bounds of the model.                                                    *)
(***************************************************************************)
MaxItems == 2      \* Append calls on one blob
MaxChunk == 2      \* largest per-call limit of a reader that reads short
MaxViews == 2      \* views handed out by one opened container
MaxTail == 10      \* arbitrary bytes after the whole entries in hdr

(***************************************************************************)
(* Byte strings.                                                           *)
(***************************************************************************)
Min(a, b) == IF a < b THEN a ELSE b

Max(a, b) == IF a > b THEN a ELSE b

Rep(b, n) == IF n = 0 THEN <<>> ELSE << <<b, n>> >>

RECURSIVE BLen(_)
BLen(s) == IF s = <<>> THEN 0 ELSE s[1][2] + BLen(Tail(s))

Cat(s, t) ==
    IF s = <<>> THEN t
    ELSE IF t = <<>> THEN s
    ELSE IF s[Len(s)][1] = t[1][1]
         THEN SubSeq(s, 1, Len(s) - 1)
                  \o << <<t[1][1], s[Len(s)][2] + t[1][2]>> >> \o Tail(t)
         ELSE s \o t

RECURSIVE Take(_, _)
Take(s, n) ==
    IF n <= 0 \/ s = <<>> THEN <<>>
    ELSE IF s[1][2] >= n THEN << <<s[1][1], n>> >>
    ELSE <<s[1]>> \o Take(Tail(s), n - s[1][2])

RECURSIVE Drop(_, _)
Drop(s, n) ==
    IF n <= 0 \/ s = <<>> THEN s
    ELSE IF s[1][2] > n THEN << <<s[1][1], s[1][2] - n>> >> \o Tail(s)
    ELSE Drop(Tail(s), n - s[1][2])

\* bytes from..to of s, counted from 1, both included
Sub(s, from, to) == Take(Drop(s, from - 1), to - from + 1)

RECURSIVE FromSeq(_)
FromSeq(q) == IF q = <<>> THEN <<>> ELSE Cat(Rep(q[1], 1), FromSeq(Tail(q)))

RECURSIVE ToSeq(_)
ToSeq(s) ==
    IF s = <<>> THEN <<>>
    ELSE <<s[1][1]>> \o ToSeq(Drop(s, 1))

(***************************************************************************)
(* Numbers in byteOrder (little endian).                                   *)
(***************************************************************************)
\* the k low bytes of n: binary.Write of uintK(n)
RECURSIVE LEBytes(_, _)
LEBytes(n, k) ==
    IF k = 0 THEN <<>> ELSE <<n % 256>> \o LEBytes(n \div 256, k - 1)

\* the value of the bytes q, least significant first
RECURSIVE LEVal(_)
LEVal(q) == IF q = <<>> THEN 0 ELSE q[1] + 256 * LEVal(Tail(q))

U64(n) == LEBytes(n, 8)

U64Zero == U64(0)

RECURSIVE AddBytes(_, _, _, _)
AddBytes(a, b, k, carry) ==
    IF k > Len(a) THEN <<>>
    ELSE LET s == a[k] + b[k] + carry
         IN  <<s % 256>> \o AddBytes(a, b, k + 1, s \div 256)

RECURSIVE SubBytes(_, _, _, _)
SubBytes(a, b, k, borrow) ==
    IF k > Len(a) THEN <<>>
    ELSE LET d == a[k] - b[k] - borrow
         IN  <<(d + 256) % 256>> \o SubBytes(a, b, k + 1, IF d < 0 THEN 1 ELSE 0)

\* uint64 addition and subtraction, wrapping at 2^64
U64Add(a, b) == AddBytes(a, b, 1, 0)

U64Sub(a, b) == SubBytes(a, b, 1, 0)

\* a uint64 below 2^24, the only ones the model turns into an index
IsSmall(a) == \A k \in 4..Len(a) : a[k] = 0

ToNat(a) == LEVal(SubSeq(a, 1, 3))

\* a uint64 that make([]byte, n) refuses: n above the allocation limit 2^48
TooBigToMake(a) == a[7] # 0 \/ a[8] # 0

(***************************************************************************)
(* The blob: New, ItemCount, Append and the lookups.                       *)
(***************************************************************************)
New == [header |-> <<>>, data |-> <<>>]

ItemCount(b) == Len(b.header)

\* Blob.Append (Append is the sequence operator here, hence the name)
BlobAppend(b, id, d) ==
    [header |-> Append(b.header,
                       [id    |-> id,
                        start |-> U64(BLen(b.data)),
                        end   |-> U64(BLen(b.data) + BLen(d))]),
     data   |-> Cat(b.data, d)]

NotFound == [data |-> <<>>, found |-> FALSE, panic |-> FALSE]

\* b.data[start:end]: Go panics unless start <= end <= len(b.data)
Slice(d, start, end) ==
    IF IsSmall(start) /\ IsSmall(end)
       /\ ToNat(start) <= ToNat(end) /\ ToNat(end) <= BLen(d)
    THEN [data |-> Sub(d, ToNat(start) + 1, ToNat(end)), found |-> TRUE, panic |-> FALSE]
    ELSE [data |-> <<>>, found |-> FALSE, panic |-> TRUE]

GetByID(b, id) ==
    LET hits == {i \in 1..Len(b.header) : b.header[i].id = id}
    IN  IF hits = {} THEN NotFound
        ELSE LET i == CHOOSE j \in hits : \A k \in hits : j <= k
             IN  Slice(b.data, b.header[i].start, b.header[i].end)

\* i counts from 0, as in the code
GetIDAtIndex(b, i) ==
    IF i < 0 \/ i >= Len(b.header) THEN <<>> ELSE b.header[i + 1].id

\* GetByIndex that takes index 0 for out of bounds
GetByIndexFromOne(b, i) ==
    IF i <= 0 \/ i >= Len(b.header) THEN NotFound
    ELSE Slice(b.data, b.header[i + 1].start, b.header[i + 1].end)

GetByIndex(b, i) ==
    IF i < 0 \/ i >= Len(b.header) THEN NotFound
    ELSE Slice(b.data, b.header[i + 1].start, b.header[i + 1].end)

(***************************************************************************)
(* Blob.Write.                                                             *)
(***************************************************************************)
\* the loop of Write that fills the temporary buffer: per entry uint16(len(id)),
\* the id, and end - start as uint64
RECURSIVE EncodeHeader(_)
EncodeHeader(h) ==
    IF h = <<>> THEN <<>>
    ELSE Cat(Cat(Cat(FromSeq(LEBytes(BLen(h[1].id), 2)), h[1].id),
                 FromSeq(U64Sub(h[1].end, h[1].start))),
             EncodeHeader(Tail(h)))

\* the phases in which the destination can fail
FailPhases == {"none", "length", "header", "data"}

\* Write that goes on to the data after the destination failed on the header
WriteOn(b, fail) ==
    LET buffer == EncodeHeader(b.header)
        length == FromSeq(LEBytes(BLen(buffer), 4))
    IN  IF fail = "length"
        THEN [bytes |-> <<>>, calls |-> <<"length">>,
              err |-> "writing blob header length"]
        ELSE IF fail = "header"
        THEN [bytes |-> Cat(length, b.data), calls |-> <<"length", "header", "data">>,
              err |-> "writing blob header"]
        ELSE IF fail = "data"
        THEN [bytes |-> Cat(length, buffer),
              calls |-> <<"length", "header", "data">>,
              err |-> "writing blob data"]
        ELSE [bytes |-> Cat(Cat(length, buffer), b.data),
              calls |-> <<"length", "header", "data">>,
              err |-> "nil"]

\* Write(w) on a destination that fails in phase fail (a failing call adds no
\* byte): the bytes the destination received, its calls, and the error
Write(b, fail) ==
    LET buffer == EncodeHeader(b.header)
        length == FromSeq(LEBytes(BLen(buffer), 4))
    IN  IF fail = "length"
        THEN [bytes |-> <<>>, calls |-> <<"length">>,
              err |-> "writing blob header length"]
        ELSE IF fail = "header"
        THEN [bytes |-> length, calls |-> <<"length", "header">>,
              err |-> "writing blob header"]
        ELSE IF fail = "data"
        THEN [bytes |-> Cat(length, buffer),
              calls |-> <<"length", "header", "data">>,
              err |-> "writing blob data"]
        ELSE [bytes |-> Cat(Cat(length, buffer), b.data),
              calls |-> <<"length", "header", "data">>,
              err |-> "nil"]

(***************************************************************************)
(* Readers.  A reader holds bytes; one Read call returns at most chunk     *)
(* bytes (chunk = 0: no limit, as bytes.Buffer and bytes.Reader); zeroEOF  *)
(* tells what a Read into an empty slice returns at the end of the bytes:  *)
(* io.EOF (bytes.Reader) or nil (bytes.Buffer).                            *)
(***************************************************************************)
BufferOf(bytes) == [bytes |-> bytes, chunk |-> 0, zeroEOF |-> FALSE]

\* r.Read(p) with len(p) = n at position pos: the count and whether err is io.EOF
ReaderRead(r, pos, n) ==
    LET rest == BLen(r.bytes) - pos
    IN  IF n = 0 THEN [n |-> 0, eof |-> r.zeroEOF /\ rest = 0]
        ELSE IF rest = 0 THEN [n |-> 0, eof |-> TRUE]
        ELSE [n |-> IF r.chunk = 0 THEN Min(n, rest) ELSE Min(Min(n, rest), r.chunk),
              eof |-> FALSE]

\* io.ReadFull(r, p) with len(p) = n at position pos: whether it fills p
ReadFullOK(r, pos, n) == BLen(r.bytes) - pos >= n

(***************************************************************************)
(* Read: the header decoding, then Read itself.                            *)
(***************************************************************************)
\* the loop of Read that dissects the header bytes hb from byte pos on;
\* acc is b.header and overall is overallDataLength so far
\* Dissect with the end of the bytes inside a data length taken for the end
\* of the header
RECURSIVE DissectBestEffort(_, _, _, _)
DissectBestEffort(hb, pos, acc, overall) ==
    LET left == BLen(hb) - pos
    IN  IF left <= 0
        THEN [err |-> "nil", header |-> acc, overall |-> overall]
        ELSE IF left < 2
        THEN [err |-> "reading blob header id length", header |-> acc, overall |-> overall]
        ELSE LET idLength == LEVal(ToSeq(Sub(hb, pos + 1, pos + 2)))
                 id == Sub(hb, pos + 3, pos + 2 + idLength)
             IN  IF BLen(id) # idLength
                 THEN [err |-> "reading blob header id", header |-> acc, overall |-> overall]
                 ELSE IF left - 2 - idLength < 8
                 THEN [err |-> "nil", header |-> acc, overall |-> overall]
                 ELSE LET dataLength ==
                              ToSeq(Sub(hb, pos + 3 + idLength, pos + 10 + idLength))
                          end == U64Add(overall, dataLength)
                      IN  DissectBestEffort(hb, pos + 10 + idLength,
                                  Append(acc, [id |-> id, start |-> overall, end |-> end]),
                                  end)

\* Dissect with every entry starting at offset 0: overallDataLength not kept
RECURSIVE DissectNoOffsets(_, _, _, _)
DissectNoOffsets(hb, pos, acc, overall) ==
    LET left == BLen(hb) - pos
    IN  IF left <= 0
        THEN [err |-> "nil", header |-> acc, overall |-> overall]
        ELSE IF left < 2
        THEN [err |-> "reading blob header id length", header |-> acc, overall |-> overall]
        ELSE LET idLength == LEVal(ToSeq(Sub(hb, pos + 1, pos + 2)))
                 id == Sub(hb, pos + 3, pos + 2 + idLength)
             IN  IF BLen(id) # idLength
                 THEN [err |-> "reading blob header id", header |-> acc, overall |-> overall]
                 ELSE IF left - 2 - idLength < 8
                 THEN [err |-> "reading blob header data length",
                       header |-> acc, overall |-> overall]
                 ELSE LET dataLength ==
                              ToSeq(Sub(hb, pos + 3 + idLength, pos + 10 + idLength))
                      IN  DissectNoOffsets(hb, pos + 10 + idLength,
                                  Append(acc, [id |-> id, start |-> U64Zero,
                                               end |-> dataLength]),
                                  U64Add(overall, dataLength))

RECURSIVE Dissect(_, _, _, _)
Dissect(hb, pos, acc, overall) ==
    LET left == BLen(hb) - pos
    IN  IF left <= 0
        THEN [err |-> "nil", header |-> acc, overall |-> overall]
        ELSE IF left < 2
        THEN [err |-> "reading blob header id length", header |-> acc, overall |-> overall]
        ELSE LET idLength == LEVal(ToSeq(Sub(hb, pos + 1, pos + 2)))
                 id == Sub(hb, pos + 3, pos + 2 + idLength)
             IN  IF BLen(id) # idLength
                 THEN [err |-> "reading blob header id", header |-> acc, overall |-> overall]
                 ELSE IF left - 2 - idLength < 8
                 THEN [err |-> "reading blob header data length",
                       header |-> acc, overall |-> overall]
                 ELSE LET dataLength ==
                              ToSeq(Sub(hb, pos + 3 + idLength, pos + 10 + idLength))
                          end == U64Add(overall, dataLength)
                      IN  Dissect(hb, pos + 10 + idLength,
                                  Append(acc, [id |-> id, start |-> overall, end |-> end]),
                                  end)

DecodeHeader(hb) == Dissect(hb, 0, <<>>, U64Zero)

NilBlob(err) == [err |-> err, isNil |-> TRUE, header |-> <<>>, data |-> <<>>]

\* Read(r): err, and the blob (nil whenever err is not "nil")
Read(r) ==
    IF ~ReadFullOK(r, 0, 4) THEN NilBlob("reading blob header length")
    ELSE
    LET headerLength == LEVal(ToSeq(Take(r.bytes, 4)))
        got == ReaderRead(r, 4, headerLength)
        \* make([]byte, headerLength), of which one r.Read fills the first got.n
        hb == Cat(Sub(r.bytes, 5, 4 + got.n), Rep(0, headerLength - got.n))
        d == DecodeHeader(hb)
        pos == 4 + got.n
    IN  IF got.eof THEN NilBlob("reading blob header")
        ELSE IF d.err # "nil" THEN NilBlob(d.err)
        ELSE IF d.overall = U64Zero
        THEN [err |-> "nil", isNil |-> FALSE, header |-> d.header, data |-> <<>>]
        ELSE IF TooBigToMake(d.overall) THEN NilBlob("panic: makeslice: len out of range")
        ELSE IF ~IsSmall(d.overall) \/ ~ReadFullOK(r, pos, ToNat(d.overall))
        THEN NilBlob("reading blob data")
        ELSE [err |-> "nil", isNil |-> FALSE, header |-> d.header,
              data |-> Sub(r.bytes, pos + 1, pos + ToNat(d.overall))]

(***************************************************************************)
(* The inputs of the model.                                                *)
(***************************************************************************)
\* "id" and "1"
Ids == {FromSeq(<<105, 100>>), FromSeq(<<49>>)}

Datas == {<<>>, FromSeq(<<1, 2, 3>>), FromSeq(<<4, 5>>)}

\* the longest identifier the uint16 length field can hold
MaxIDLen == 65535

\* an identifier of MaxIDLen + 1 bytes that reads as header bytes: a data length
\* of 0, the id length MaxIDLen - 9 and as many 'a'
HeaderLikeId ==
    Cat(Cat(Rep(0, 8), FromSeq(LEBytes(MaxIDLen - 9, 2))), Rep(97, MaxIDLen - 9))

\* identifiers of MaxIDLen and MaxIDLen + 1 bytes, all 'a', and HeaderLikeId
LongIds == {Rep(97, MaxIDLen), Rep(97, MaxIDLen + 1), HeaderLikeId}

(***************************************************************************)
(* The state machine of the eager side: a client appends to a new blob,    *)
(* writes it once, and reads once from what the destination received.      *)
(***************************************************************************)
NoRead ==
    [done |-> FALSE, reader |-> BufferOf(<<>>),
     err |-> "nil", isNil |-> TRUE, header |-> <<>>, data |-> <<>>]

NoContainer == [opened |-> FALSE, err |-> "nil", header |-> <<>>, base |-> 0]

NoOp == [op |-> "none", view |-> 0, found |-> FALSE, len |-> 0, off |-> 0,
         whence |-> "none", n |-> 0, bytes |-> <<>>, err |-> "nil", src |-> 0]

NoDecode ==
    [done |-> FALSE, err |-> "nil", isNil |-> TRUE, header |-> <<>>, data |-> <<>>]

b == [header |-> header, data |-> data]

InitBlob ==
    /\ header = New.header
    /\ data = New.data
    /\ appended = <<>>
    /\ wbuf = <<>>
    /\ wcalls = <<>>
    /\ wfail = "none"
    /\ werr = "unwritten"
    /\ rd = NoRead
    /\ sc = NoContainer
    /\ srcPos = 0
    /\ views = <<>>
    /\ last = NoOp

Init ==
    /\ InitBlob
    /\ hdr = <<>>
    /\ dec = NoDecode

AppendTo(ids) ==
    /\ werr = "unwritten"
    /\ Len(header) < MaxItems
    /\ \E id \in ids, d \in Datas :
           LET nb == BlobAppend(b, id, d)
           IN  /\ header' = nb.header
               /\ data' = nb.data
               /\ appended' = Append(appended, [id |-> id, data |-> d])
    /\ UNCHANGED <<wbuf, wcalls, wfail, werr, rd, sc, srcPos, views, last, hdr, dec>>

AppendStep == AppendTo(Ids)

AppendLongStep == AppendTo(Ids \cup LongIds)

WriteStep ==
    /\ werr = "unwritten"
    /\ \E fail \in FailPhases :
           LET w == Write(b, fail)
           IN  /\ wbuf' = w.bytes
               /\ wcalls' = w.calls
               /\ wfail' = fail
               /\ werr' = w.err
    /\ UNCHANGED <<header, data, appended, rd, sc, srcPos, views, last, hdr, dec>>

ReadFrom(r) ==
    /\ ~rd.done
    /\ rd' = [done |-> TRUE, reader |-> r] @@ Read(r)
    /\ UNCHANGED <<header, data, appended, wbuf, wcalls, wfail, werr, sc, srcPos, views, last, hdr, dec>>

\* Read from a reader over the first k bytes the destination received
ReadStep ==
    /\ werr # "unwritten"
    /\ \E k \in 0..BLen(wbuf), chunk \in 0..MaxChunk, z \in BOOLEAN :
           ReadFrom([bytes |-> Take(wbuf, k), chunk |-> chunk, zeroEOF |-> z])

\* Read from the buffer Write wrote to
ReadBufferStep ==
    /\ werr # "unwritten"
    /\ ReadFrom(BufferOf(wbuf))

Next == AppendStep \/ WriteStep \/ ReadStep

Spec == Init /\ [][Next]_vars

(***************************************************************************)
(* The header decoding on its own: Read from a buffer that holds the       *)
(* header length, then hdr: at most one whole entry followed by arbitrary  *)
(* bytes or by an entry of a very large data length, and no data.          *)
(***************************************************************************)
TailBytes == {0, 1}

TailsUpTo(n) == UNION {[1..k -> TailBytes] : k \in 0..n}

\* the headers of no entry and of one entry
WholeHeaders ==
    {<<>>} \cup {EncodeHeader(BlobAppend(New, id, d).header) : id \in Ids, d \in Datas}

\* an entry of the empty id whose data length is 2^64 - n, n the length of
\* some data: with an entry of n data bytes before it the sum wraps to 0
WrapTails == {<<0, 0>> \o U64Sub(U64Zero, U64(BLen(d))) : d \in Datas}

HdrInputs ==
    {Cat(h, FromSeq(t)) : h \in WholeHeaders, t \in TailsUpTo(MaxTail) \cup WrapTails}

InitDecode ==
    /\ InitBlob
    /\ hdr \in HdrInputs
    /\ dec = NoDecode

DecodeStep ==
    /\ ~dec.done
    /\ dec' = [done |-> TRUE]
                  @@ Read(BufferOf(Cat(FromSeq(LEBytes(BLen(hdr), 4)), hdr)))
    /\ UNCHANGED <<header, data, appended, wbuf, wcalls, wfail, werr, rd, sc, srcPos, views, last, hdr>>

NextDecode == DecodeStep

SpecDecode == InitDecode /\ [][NextDecode]_vars

(***************************************************************************)
(* The lazily opened container and its views.  Open, the container's       *)
(* lookups and the views' Read and Seek are not among the sources: they    *)
(* are modelled from the specification (sections 4.3 and 4.4); the header  *)
(* decoding they use is the one of Read.                                   *)
(***************************************************************************)
\* Open(source): reads the header length and exactly that many header bytes,
\* decodes them, base = 4 + headerLength; pos is where it leaves the source
Open(bytes) ==
    IF BLen(bytes) < 4
    THEN [err |-> "reading blob header length", header |-> <<>>, base |-> 0,
          pos |-> BLen(bytes)]
    ELSE LET headerLength == LEVal(ToSeq(Take(bytes, 4)))
             d == DecodeHeader(Sub(bytes, 5, 4 + headerLength))
         IN  IF BLen(bytes) - 4 < headerLength
             THEN [err |-> "reading blob header", header |-> <<>>, base |-> 0,
                   pos |-> BLen(bytes)]
             ELSE IF d.err # "nil"
             THEN [err |-> d.err, header |-> <<>>, base |-> 0, pos |-> 4 + headerLength]
             ELSE [err |-> "nil", header |-> d.header, base |-> 4 + headerLength,
                   pos |-> 4 + headerLength]

NoView == [found |-> FALSE, item |-> 0, base |-> 0, length |-> 0, cursor |-> 0]

\* a container that keeps one view per item and hands it out again, cursor
\* and all
ViewOfKept(c, i) ==
    LET kept == {j \in 1..Len(views) : views[j].item = i}
    IN  [found |-> TRUE, item |-> i,
         base |-> c.base + ToNat(c.header[i + 1].start),
         length |-> ToNat(U64Sub(c.header[i + 1].end, c.header[i + 1].start)),
         cursor |-> IF kept = {} THEN 0
                    ELSE views[CHOOSE j \in kept : \A k \in kept : k <= j].cursor]

\* a fresh view of entry i (counted from 0): base = containerBase + start,
\* length = end - start, cursor = 0
ViewOf(c, i) ==
    [found |-> TRUE, item |-> i,
     base |-> c.base + ToNat(c.header[i + 1].start),
     length |-> ToNat(U64Sub(c.header[i + 1].end, c.header[i + 1].start)),
     cursor |-> 0]

StreamGetByIndex(c, i) ==
    IF i < 0 \/ i >= Len(c.header) THEN NoView ELSE ViewOf(c, i)

StreamGetByID(c, id) ==
    LET hits == {i \in 1..Len(c.header) : c.header[i].id = id}
    IN  IF hits = {} THEN NoView
        ELSE ViewOf(c, (CHOOSE j \in hits : \A k \in hits : j <= k) - 1)

\* view.Read(p) with len(p) = n on the source bytes: positions the source at
\* base + cursor, reads at most min(n, length - cursor) bytes there, advances
\* the cursor by the count; src is where it leaves the source
ViewRead(v, n, bytes) ==
    LET at == v.base + v.cursor
        got == Sub(bytes, at + 1, at + Min(n, v.length - v.cursor))
    IN  [n |-> BLen(got), bytes |-> got, cursor |-> v.cursor + BLen(got),
         src |-> at + BLen(got)]

Whences == {"start", "current", "end"}

\* Seek that does not clamp
ViewSeekUnclamped(v, offset, whence) ==
    IF whence \notin {"start", "current", "end"}
    THEN [err |-> "InvalidSeek", cursor |-> v.cursor]
    ELSE LET origin == IF whence = "start" THEN 0
                       ELSE IF whence = "current" THEN v.cursor ELSE v.length
         IN  [err |-> "nil", cursor |-> origin + offset]

\* view.Seek(offset, whence): the new cursor, clamped to 0..length; a whence
\* that is none of the three is an error and leaves the cursor
ViewSeek(v, offset, whence) ==
    IF whence \notin Whences THEN [err |-> "InvalidSeek", cursor |-> v.cursor]
    ELSE LET origin == IF whence = "start" THEN 0
                       ELSE IF whence = "current" THEN v.cursor ELSE v.length
         IN  [err |-> "nil", cursor |-> Max(0, Min(origin + offset, v.length))]

\* ioutil.ReadAll(view): Read into a buffer of n bytes until Read returns 0
RECURSIVE ReadAll(_, _, _)
ReadAll(v, n, bytes) ==
    LET r == ViewRead(v, n, bytes)
    IN  IF r.n = 0 THEN <<>>
        ELSE Cat(r.bytes, ReadAll([v EXCEPT !.cursor = r.cursor], n, bytes))

(***************************************************************************)
(* The state machine of the lazy side: the client opens, once, what a      *)
(* successful Write produced, looks items up and reads and seeks in the    *)
(* views, one call after the other.                                        *)
(***************************************************************************)
MaxOffset == 2     \* largest distance of a Seek

BufLens == {1, 2, 32}

SeekOffsets == (0 - MaxOffset)..MaxOffset

\* the (offset, whence) pairs of Seek: the three whences, and one that is none
SeekInputs == (SeekOffsets \X Whences) \cup {<<0, "other">>}

\* an identifier no Append uses: "x"
AbsentId == FromSeq(<<120>>)

OpenStep ==
    /\ werr = "nil"
    /\ ~sc.opened
    /\ LET o == Open(wbuf)
       IN  /\ sc' = [opened |-> TRUE, err |-> o.err, header |-> o.header, base |-> o.base]
           /\ srcPos' = o.pos
    /\ last' = [NoOp EXCEPT !.op = "open"]
    /\ UNCHANGED <<header, data, appended, wbuf, wcalls, wfail, werr, rd, views, hdr, dec>>

Opened == sc.opened /\ sc.err = "nil"

Hand(v, op) ==
    /\ views' = IF v.found THEN Append(views, [item |-> v.item, base |-> v.base,
                                               length |-> v.length, cursor |-> v.cursor])
                ELSE views
    /\ last' = [NoOp EXCEPT !.op = op, !.found = v.found,
                            !.view = IF v.found THEN Len(views) + 1 ELSE 0]
    /\ UNCHANGED <<header, data, appended, wbuf, wcalls, wfail, werr, rd, sc, srcPos, hdr, dec>>

GetByIDStep ==
    /\ Opened
    /\ Len(views) < MaxViews
    /\ \E id \in Ids \cup {AbsentId} : Hand(StreamGetByID(sc, id), "GetByID")

GetByIndexStep ==
    /\ Opened
    /\ Len(views) < MaxViews
    /\ \E i \in (0 - 1)..MaxItems : Hand(StreamGetByIndex(sc, i), "GetByIndex")

ViewReadStep ==
    /\ Opened
    /\ \E v \in 1..Len(views), n \in BufLens :
           LET r == ViewRead(views[v], n, wbuf)
           IN  /\ views' = [views EXCEPT ![v].cursor = r.cursor]
               /\ srcPos' = r.src
               /\ last' = [NoOp EXCEPT !.op = "read", !.view = v, !.len = n,
                                       !.n = r.n, !.bytes = r.bytes, !.src = srcPos]
    /\ UNCHANGED <<header, data, appended, wbuf, wcalls, wfail, werr, rd, sc, hdr, dec>>

ViewSeekStep ==
    /\ Opened
    /\ \E v \in 1..Len(views), in \in SeekInputs :
           LET r == ViewSeek(views[v], in[1], in[2])
           IN  /\ views' = [views EXCEPT ![v].cursor = r.cursor]
               /\ last' = [NoOp EXCEPT !.op = "seek", !.view = v, !.off = in[1],
                                       !.whence = in[2], !.n = r.cursor, !.err = r.err]
    /\ UNCHANGED <<header, data, appended, wbuf, wcalls, wfail, werr, rd, sc, srcPos, hdr, dec>>

NextStream ==
    \/ AppendStep
    \/ WriteStep
    \/ OpenStep
    \/ GetByIDStep
    \/ GetByIndexStep
    \/ ViewReadStep
    \/ ViewSeekStep

SpecStream == Init /\ [][NextStream]_vars

(***************************************************************************)
(* The same client with identifiers at and above the limit of the length   *)
(* field.                                                                  *)
(***************************************************************************)
NextLong == AppendLongStep \/ WriteStep \/ ReadBufferStep \/ OpenStep

SpecLong == Init /\ [][NextLong]_vars

(***************************************************************************)
(* What the claims speak of.                                               *)
(***************************************************************************)
ReadBlob == [header |-> rd.header, data |-> rd.data]

\* every identifier fits the uint16 length field
WithinFormat == \A i \in 1..Len(appended) : BLen(appended[i].id) <= MaxIDLen

\* the first Append with this identifier
FirstAppend(id) ==
    CHOOSE i \in 1..Len(appended) :
        /\ appended[i].id = id
        /\ \A j \in 1..(i - 1) : appended[j].id # id

\* Write returned nil and Read read the buffer Write wrote to
WroteAndReadBack == werr = "nil" /\ rd.done /\ rd.reader = BufferOf(wbuf)

RoundTripHolds ==
    /\ rd.err = "nil"
    /\ ~rd.isNil
    /\ ItemCount(ReadBlob) = Len(appended)
    /\ \A i \in 1..Len(appended) :
           LET g == GetByID(ReadBlob, appended[i].id)
           IN  g.found /\ g.data = appended[FirstAppend(appended[i].id)].data

\* C1: after Append of any (id, data) pairs on a new blob, Write to a buffer and
\* Read from that buffer, Read succeeds, ItemCount is the number of Appends and
\* GetByID(id) finds the original data of id (of its first Append), for every id.
C1_RoundTrip == WroteAndReadBack => RoundTripHolds

\* C1 for identifiers that fit the length field
C1_RoundTripWithinFormat == (WroteAndReadBack /\ WithinFormat) => RoundTripHolds

\* the bytes from byte pos on are the entries of es: a 2-byte length that is the
\* length of the id, the id, an 8-byte length that is the length of the data
RECURSIVE EntriesAt(_, _, _)
EntriesAt(bytes, pos, es) ==
    IF es = <<>> THEN BLen(bytes) = pos
    ELSE LET n == BLen(es[1].id)
         IN  /\ BLen(bytes) >= pos + 2 + n + 8
             /\ LEVal(ToSeq(Sub(bytes, pos + 1, pos + 2))) = n
             /\ Sub(bytes, pos + 3, pos + 2 + n) = es[1].id
             /\ LEVal(ToSeq(Sub(bytes, pos + 3 + n, pos + 5 + n))) = BLen(es[1].data)
             /\ Sub(bytes, pos + 6 + n, pos + 10 + n) = Rep(0, 5)
             /\ EntriesAt(bytes, pos + 10 + n, Tail(es))

RECURSIVE HeaderSize(_)
HeaderSize(es) == IF es = <<>> THEN 0 ELSE 2 + BLen(es[1].id) + 8 + HeaderSize(Tail(es))

RECURSIVE AllData(_)
AllData(es) == IF es = <<>> THEN <<>> ELSE Cat(es[1].data, AllData(Tail(es)))

ReferenceEncoding ==
    /\ BLen(wbuf) = 4 + HeaderSize(appended) + BLen(AllData(appended))
    /\ LEVal(ToSeq(Take(wbuf, 4))) = HeaderSize(appended)
    /\ EntriesAt(Take(wbuf, 4 + HeaderSize(appended)), 4, appended)
    /\ Drop(wbuf, 4 + HeaderSize(appended)) = AllData(appended)
    /\ (appended = <<>> => wbuf = FromSeq(<<0, 0, 0, 0>>))

\* C2: Write emits the reference encoding: the 4-byte header length, the sum of
\* 2 + len(id) + 8; per entry in insertion order the 2-byte id length, the id
\* and the 8-byte data length; then all data in entry order; 0,0,0,0 when empty.
C2_ReferenceEncoding == werr = "nil" => ReferenceEncoding

\* C2 for identifiers that fit the length field
C2_ReferenceEncodingWithinFormat == (werr = "nil" /\ WithinFormat) => ReferenceEncoding

\* C4: to a destination that does not fail, Write succeeds when the identifiers
\* are at most 65535 bytes long and returns an error when one is 65536 or longer.
C4_IdentifierLengthChecked ==
    (werr # "unwritten" /\ wfail = "none") => (werr = "nil" <=> WithinFormat)

\* C8: when an identifier is too long, Write has written no byte to the
\* destination: it has not called it at all.
C8_NothingWrittenOnTooLong ==
    (werr # "unwritten" /\ ~WithinFormat) => (wbuf = <<>> /\ wcalls = <<>>)

\* the header length a reader announces in its first 4 bytes
AnnouncedLength(r) == LEVal(ToSeq(Take(r.bytes, 4)))

\* the header bytes the reader holds after the header length
HeaderBytesOf(r) == Sub(r.bytes, 5, 4 + AnnouncedLength(r))

\* the reader holds the header length but ends before the end of the header
EndsInHeader(r) == BLen(r.bytes) >= 4 /\ BLen(r.bytes) - 4 < AnnouncedLength(r)

\* C5: Read fills the header buffer completely or fails: it returns an error
\* when the source ends before headerLength header bytes, and what it returns
\* without error is decoded from all headerLength bytes of the source, also
\* when one read call of the source returns fewer.
C5_CompleteFill ==
    (rd.done /\ BLen(rd.reader.bytes) >= 4) =>
        /\ EndsInHeader(rd.reader) => rd.err # "nil"
        /\ rd.err = "nil" => rd.header = DecodeHeader(HeaderBytesOf(rd.reader)).header

\* C5 for readers that hold the whole header and hand it over in one call
C5_CompleteFillInOneCall ==
    (rd.done /\ BLen(rd.reader.bytes) >= 4 /\ rd.reader.chunk = 0
             /\ ~EndsInHeader(rd.reader)) =>
        (rd.err = "nil" => rd.header = DecodeHeader(HeaderBytesOf(rd.reader)).header)

\* the reader ends before the header length, the header, or the data the
\* decoded header announces
SourceEndsEarly(r) ==
    \/ BLen(r.bytes) < 4
    \/ EndsInHeader(r)
    \/ LET d == DecodeHeader(HeaderBytesOf(r))
       IN  /\ d.err = "nil"
           /\ \/ ~IsSmall(d.overall)
              \/ BLen(r.bytes) - 4 - AnnouncedLength(r) < ToNat(d.overall)

\* C10: Read is all-or-nothing: with an error the blob is nil, and Read returns
\* an error whenever the source ends before the header length, the header or
\* all the data bytes.
C10_AllOrNothing ==
    rd.done =>
        /\ rd.err # "nil" => (rd.isNil /\ rd.header = <<>> /\ rd.data = <<>>)
        /\ SourceEndsEarly(rd.reader) => rd.err # "nil"

\* C10 for readers that hand over the header in one call and hold all of it
C10_AllOrNothingHeaderFilled ==
    (rd.done /\ rd.reader.chunk = 0 /\ ~EndsInHeader(rd.reader)) =>
        /\ rd.err # "nil" => (rd.isNil /\ rd.header = <<>> /\ rd.data = <<>>)
        /\ SourceEndsEarly(rd.reader) => rd.err # "nil"

\* the bytes from byte pos on are whole entries
RECURSIVE WholeEntries(_, _)
WholeEntries(hb, pos) ==
    \/ BLen(hb) = pos
    \/ /\ BLen(hb) >= pos + 2
       /\ LET n == LEVal(ToSeq(Sub(hb, pos + 1, pos + 2)))
          IN  /\ BLen(hb) >= pos + 2 + n + 8
              /\ WholeEntries(hb, pos + 2 + n + 8)

EndsMidEntry(hb) == ~WholeEntries(hb, 0)

HeaderErrors ==
    {"reading blob header id length", "reading blob header id",
     "reading blob header data length"}

\* C9: when the header bytes end in the middle of an entry (in the id length,
\* the id or the data length) the decoding fails with an error and no entry
\* list is returned.
C9_TruncatedHeaderFails ==
    (dec.done /\ EndsMidEntry(hdr)) =>
        (dec.err \in HeaderErrors /\ dec.isNil /\ dec.header = <<>>)

\* a header that ends mid-entry after at least one whole entry was decoded
C9_Witness ==
    /\ dec.done
    /\ EndsMidEntry(hdr)
    /\ Len(DecodeHeader(hdr).header) >= 1
    /\ dec.err = "reading blob header data length"

\* the bytes of the entry a view was handed out for, as they were appended
ItemBytes(v) == appended[v.item + 1].data

\* a step that is a Read of view last'.view into a buffer of last'.len bytes
ReadReturnsItsOwnBytes ==
    LET v == last'.view
        old == views[v]
        n == Min(last'.len, old.length - old.cursor)
    IN  /\ last'.n = n
        /\ last'.bytes = Sub(ItemBytes(old), old.cursor + 1, old.cursor + n)
        /\ old.cursor = old.length => last'.n = 0
        /\ views' = [views EXCEPT ![v].cursor = old.cursor + n]

SeekClamps ==
    LET v == last'.view
        old == views[v]
        origin == IF last'.whence = "start" THEN 0
                  ELSE IF last'.whence = "current" THEN old.cursor ELSE old.length
        to == origin + last'.off
        new == IF to < 0 THEN 0 ELSE IF to > old.length THEN old.length ELSE to
    IN  /\ last'.err = "nil"
        /\ last'.n = new
        /\ views' = [views EXCEPT ![v].cursor = new]

CursorsInRange ==
    \A v \in 1..Len(views) : 0 <= views[v].cursor /\ views[v].cursor <= views[v].length

\* C7: Seek(offset, whence) with whence start, current or end sets the cursor
\* to origin + offset clamped to 0..length and returns it, origin being 0, the
\* cursor or length; so every view has 0 <= cursor <= length in every state.
C7_SeekClamps ==
    /\ [](CursorsInRange)
    /\ [][(last'.op = "seek" /\ last'.whence \in Whences) => SeekClamps]_vars

\* a Seek(2, end) on a view of a 3-byte item, which is clamped to 3
C7_Witness ==
    /\ last.op = "seek"
    /\ last.whence = "end"
    /\ last.off = 2
    /\ last.n = 3
    /\ views[last.view].length = 3

\* the eager container Read returns for the bytes the destination received
Eager == Read(BufferOf(wbuf))

EagerBlob == [header |-> Eager.header, data |-> Eager.data]

\* the ids Append was called with
AppendedIds == {appended[i].id : i \in 1..Len(appended)}

\* a view read from cursor 0 to the end of its data yields what the eager lookup e found
SameData(v, e) ==
    /\ v.found = e.found
    /\ v.found => ReadAll(v, 2, wbuf) = e.data

OpenAgrees ==
    /\ sc.err = "nil"
    /\ Eager.err = "nil"
    /\ Len(sc.header) = ItemCount(EagerBlob)
    /\ \A i \in (0 - 1)..Len(appended) :
           /\ GetIDAtIndex(sc, i) = GetIDAtIndex(EagerBlob, i)
           /\ SameData(StreamGetByIndex(sc, i), GetByIndex(EagerBlob, i))
    /\ \A id \in AppendedIds \cup {AbsentId} :
           SameData(StreamGetByID(sc, id), GetByID(EagerBlob, id))

\* C6: for any container built by Append and written, Open succeeds, ItemCount
\* and GetIDAtIndex agree with the container Read returns for the same bytes,
\* and each view read from cursor 0 to the end yields the bytes of the eager
\* lookup.
C6_OpenAgreesWithRead == (werr = "nil" /\ sc.opened) => OpenAgrees

\* C6 for identifiers that fit the length field
C6_OpenAgreesWithReadWithinFormat == (werr = "nil" /\ sc.opened /\ WithinFormat) => OpenAgrees

\* GetByID on blob c finds, for every appended identifier, the data of the
\* first Append with that identifier
FirstMatch(c) ==
    \A id \in AppendedIds :
        LET g == GetByID(c, id)
        IN  g.found /\ ~g.panic /\ g.data = appended[FirstAppend(id)].data

\* a step that appends leaves GetByID as it was for the identifiers present
AppendKeepsMatches ==
    Len(header') > Len(header) =>
        \A id \in AppendedIds :
            GetByID([header |-> header', data |-> data'], id) = GetByID(b, id)

\* C11: GetByID(id) returns the data of the first entry with that identifier
\* after any sequence of Appends and after a Write/Read round trip, and an
\* Append with an identifier already present does not change what GetByID
\* returns for it.
C11_FirstMatchWins ==
    /\ [](FirstMatch(b))
    /\ [](WroteAndReadBack => (rd.err = "nil" /\ FirstMatch(ReadBlob)))
    /\ [][AppendKeepsMatches]_vars

\* C11 for identifiers that fit the length field
C11_FirstMatchWinsWithinFormat ==
    /\ [](FirstMatch(b))
    /\ []((WroteAndReadBack /\ WithinFormat) => (rd.err = "nil" /\ FirstMatch(ReadBlob)))
    /\ [][AppendKeepsMatches]_vars

\* two Appends with one identifier and different data, written and read back
C11_Witness ==
    /\ WroteAndReadBack
    /\ Len(appended) = 2
    /\ appended[1].id = appended[2].id
    /\ appended[1].data # appended[2].data
    /\ GetByID(ReadBlob, appended[2].id).data = appended[1].data

\* the indices the lookups are asked for: in bounds, below and above
Indices == (0 - 2)..(MaxItems + 1)

\* out of bounds GetByIndex finds nothing and GetIDAtIndex returns the empty
\* identifier; GetByID finds nothing for an identifier blob c does not hold
MissesAreNotFound(c) ==
    /\ \A i \in Indices :
           (i < 0 \/ i >= ItemCount(c)) =>
               (GetByIndex(c, i) = NotFound /\ GetIDAtIndex(c, i) = <<>>)
    /\ \A id \in Ids \cup LongIds \cup {AbsentId} :
           (\A k \in 1..Len(c.header) : c.header[k].id # id) =>
               GetByID(c, id) = NotFound

\* in bounds the lookups return the data and identifier of the (i+1)-th Append
HitsAreTheAppends ==
    \A i \in Indices :
        (0 <= i /\ i < ItemCount(b)) =>
            /\ GetByIndex(b, i) =
                   [data |-> appended[i + 1].data, found |-> TRUE, panic |-> FALSE]
            /\ GetIDAtIndex(b, i) = appended[i + 1].id

\* C12: lookups never error: for i < 0 or i >= ItemCount() GetByIndex(i) returns
\* found = false with no data and GetIDAtIndex(i) the empty identifier; GetByID
\* returns found = false for an identifier not present; for 0 <= i < ItemCount()
\* GetByIndex(i) and GetIDAtIndex(i) return the data and identifier of the
\* (i+1)-th Append.
C12_LookupsNeverError ==
    /\ ItemCount(b) = Len(appended)
    /\ MissesAreNotFound(b)
    /\ HitsAreTheAppends
    /\ (rd.done /\ rd.err = "nil") => MissesAreNotFound(ReadBlob)

\* two Appends with different identifiers and data, the first at index 0
C12_Witness ==
    /\ Len(appended) = 2
    /\ appended[1].id # appended[2].id
    /\ GetByIndex(b, 0).data = FromSeq(<<1, 2, 3>>)
    /\ GetByIndex(b, 1).data = FromSeq(<<4, 5>>)
    /\ ~GetByIndex(b, 2).found
    /\ ~GetByID(b, AbsentId).found

\* an entry of empty data has start = end, begins where the entry before it
\* ends and ends where the entry after it begins, and every entry still yields
\* the data it was appended with
ZeroLengthInIndex ==
    /\ Len(header) = Len(appended)
    /\ \A i \in 1..Len(appended) :
           /\ GetByIndex(b, i - 1).data = appended[i].data
           /\ appended[i].data = <<>> =>
                  /\ header[i].start = header[i].end
                  /\ header[i].start = (IF i = 1 THEN U64Zero ELSE header[i - 1].end)
                  /\ i < Len(header) => header[i + 1].start = header[i].end

\* a step that appends empty data adds one entry with start = end = the length
\* of the data buffer, and no data byte
AppendOfNothing ==
    (Len(appended') > Len(appended) /\ appended'[Len(appended')].data = <<>>) =>
        /\ data' = data
        /\ header' = Append(header, [id    |-> appended'[Len(appended')].id,
                                     start |-> U64(BLen(data)),
                                     end   |-> U64(BLen(data))])

\* the entries of empty data that are the first of their identifier
FirstAndEmpty ==
    {i \in 1..Len(appended) :
        appended[i].data = <<>> /\ FirstAppend(appended[i].id) = i}

\* after Read, and after Open, such an entry is found by its identifier, empty
ZeroLengthFound ==
    \A i \in FirstAndEmpty :
        /\ WroteAndReadBack =>
               /\ rd.err = "nil"
               /\ GetByID(ReadBlob, appended[i].id) =
                      [data |-> <<>>, found |-> TRUE, panic |-> FALSE]
        /\ (werr = "nil" /\ sc.opened) =>
               /\ sc.err = "nil"
               /\ LET v == StreamGetByID(sc, appended[i].id)
                  IN  v.found /\ v.length = 0 /\ ReadAll(v, 2, wbuf) = <<>>

\* C13: appending an entry with empty data adds a header entry with start = end
\* and no data byte, leaves the offsets and bytes of the entries before and
\* after it as they are, and after Read or Open the entry is found by its
\* identifier with an empty result.
C13_ZeroLengthEntries ==
    /\ [](ZeroLengthInIndex)
    /\ [](ZeroLengthFound)
    /\ [][AppendOfNothing]_vars

\* C13 for identifiers that fit the length field
C13_ZeroLengthEntriesWithinFormat ==
    /\ [](ZeroLengthInIndex)
    /\ [](WithinFormat => ZeroLengthFound)
    /\ [][AppendOfNothing]_vars

Lookups == {"GetByID", "GetByIndex"}

\* a step that is a lookup: a found item adds one view, at cursor 0, after the
\* views there are
LookupHandsAFreshView ==
    /\ sc' = sc
    /\ IF last'.found
       THEN /\ last'.view = Len(views) + 1
            /\ Len(views') = Len(views) + 1
            /\ views'[last'.view].cursor = 0
            /\ \A j \in 1..Len(views) : views'[j] = views[j]
       ELSE views' = views

\* a step that is a Read or a Seek of view last'.view
OtherViewsUntouched ==
    /\ sc' = sc
    /\ Len(views') = Len(views)
    /\ \A j \in 1..Len(views) : j # last'.view => views'[j] = views[j]

\* C14: every GetByID or GetByIndex of a streaming container yields a fresh
\* view with cursor 0, also for an item that has a view already; Read and Seek
\* of one view leave the cursor of every other view, also of the same item,
\* and the index of the container unchanged.
C14_ViewsAreIndependent ==
    /\ [][last'.op \in Lookups => LookupHandsAFreshView]_vars
    /\ [][last'.op \in {"read", "seek"} => OtherViewsUntouched]_vars

\* a second view of an item, handed out at cursor 0 after a Read moved the
\* first view of that item
C14_Witness ==
    /\ last.op \in Lookups
    /\ Len(views) = 2
    /\ views[1].item = views[2].item
    /\ views[1].cursor > 0
    /\ views[2].cursor = 0

Phases == <<"length", "header", "data">>

\* the error of Write that names phase p
PhaseError(p) ==
    IF p = "length" THEN "writing blob header length"
    ELSE IF p = "header" THEN "writing blob header"
    ELSE "writing blob data"

\* the bytes of the three phases, as the format lays them out
PhaseBytes ==
    LET h == EncodeHeader(header)
    IN  <<FromSeq(LEBytes(BLen(h), 4)), h, data>>

RECURSIVE BytesOfPhases(_)
BytesOfPhases(n) == IF n = 0 THEN <<>> ELSE Cat(BytesOfPhases(n - 1), PhaseBytes[n])

\* Write failed in phase k (4: in none): it called the destination for the
\* phases up to k, in order, the destination holds the bytes of the phases
\* before k, and the error names phase k
WroteUpTo(k) ==
    /\ wcalls = SubSeq(Phases, 1, Min(k, 3))
    /\ wbuf = BytesOfPhases(k - 1)
    /\ werr = (IF k = 4 THEN "nil" ELSE PhaseError(Phases[k]))

\* C15: Write writes header length, header bytes and data buffer in this
\* order; when the destination fails in a phase, Write returns the error that
\* names the phase and writes nothing of a later phase; it returns nil only
\* when all three phases succeeded.
C15_WritePhases ==
    werr # "unwritten" =>
        /\ \A k \in 1..3 : wfail = Phases[k] => WroteUpTo(k)
        /\ wfail = "none" => WroteUpTo(4)
        /\ werr = "nil" => (wfail = "none" /\ wcalls = Phases)

\* a destination that failed on the header of a blob of two entries
C15_Witness ==
    /\ Len(appended) = 2
    /\ data # <<>>
    /\ wfail = "header"
    /\ werr = "writing blob header"
    /\ wcalls = <<"length", "header">>
    /\ BLen(wbuf) = 4

\* x <= y for uint64 x and y, compared from byte k down
RECURSIVE LessEqFrom(_, _, _)
LessEqFrom(x, y, k) ==
    IF k = 0 THEN TRUE
    ELSE IF x[k] # y[k] THEN x[k] < y[k]
    ELSE LessEqFrom(x, y, k - 1)

U64LessEq(x, y) == LessEqFrom(x, y, 8)

\* the index of blob c is contiguous: entry 0 starts at 0, every other entry
\* where the one before it ends, start <= end, end - start is the length of
\* the entry's data, and the last entry ends at the length of the data buffer
Contiguous(c) ==
    /\ \A i \in 1..Len(c.header) :
           LET e == c.header[i]
               g == GetByIndex(c, i - 1)
           IN  /\ e.start = (IF i = 1 THEN U64Zero ELSE c.header[i - 1].end)
               /\ U64LessEq(e.start, e.end)
               /\ g.found /\ ~g.panic
               /\ U64(BLen(g.data)) = U64Sub(e.end, e.start)
    /\ U64(BLen(c.data)) =
           (IF c.header = <<>> THEN U64Zero ELSE c.header[Len(c.header)].end)

\* the entries are those of the Appends, in their order
InInsertionOrder ==
    /\ Len(header) = Len(appended)
    /\ \A i \in 1..Len(appended) :
           /\ header[i].id = appended[i].id
           /\ GetByIndex(b, i - 1).data = appended[i].data

\* a step that appends leaves the entries and the bytes there are
AppendKeepsTheRest ==
    Len(header') > Len(header) =>
        /\ SubSeq(header', 1, Len(header)) = header
        /\ Take(data', BLen(data)) = data

\* the blob Read returned for the header bytes hdr
DecBlob == [header |-> dec.header, data |-> dec.data]

C16_ContiguousIndexOfWritten ==
    /\ [](Contiguous(b) /\ InInsertionOrder)
    /\ []((rd.done /\ rd.err = "nil") => Contiguous(ReadBlob))
    /\ [][AppendKeepsTheRest]_vars
====
